---- MODULE Spec2Model ----
(***************************************************************************)
(* SYNAPSE demo: login.py (AuthProvider, validate_token) and board.py      *)
(* (CanvasManager, get_board_config).                                      *)
(*                                                                         *)
(* The state is the set of live AuthProvider and CanvasManager instances   *)
(* with their attributes, the dict objects handed out by                   *)
(* get_board_config, and the load state of the two modules.  Every method  *)
(* is one action.  `calls' and `ops' record the calls made (history), and  *)
(* `last' records the latest call with its return value.                   *)
(*                                                                         *)
(* The methods are modelled from the class bodies, for any instance of the *)
(* class; the outcome of loading each module is tracked in `modules'.      *)
(***************************************************************************)
EXTENDS Integers, Sequences, FiniteSets, TLC

\* ---------------------------------------------------------------- bounds
MaxCalls == 3        \* login/logout calls recorded in one behaviour
MaxOps == 4          \* add_element/clear calls recorded in one behaviour
MaxConfigs == 2      \* dicts obtained from get_board_config in one behaviour

\* ---------------------------------------------------------------- inputs
SessionIds == {"A", "B"}                  \* identities of AuthProvider objects
Usernames == {"admin", "guest"}
Passwords == {"synapse", "admin"}
Tokens == {"valid_token", "synapse", ""}
CanvasIds == {"c1", "c2"}                 \* identities of CanvasManager objects
Sizes == {0, 1}
Elements == {"x", "y"}
ThemeValues == {"gruvbox", "dark"}        \* values a caller may store in a dict
Modules == {"board", "login"}

None == "None"

VARIABLES
    modules,            \* module name -> "unloaded" | "loaded" | "ImportError"
    sessions,           \* AuthProvider instances constructed so far
    is_authenticated,   \* instance -> self.is_authenticated
    calls,              \* history of login/logout calls
    canvases,           \* CanvasManager instances constructed so far
    size,               \* instance -> self.size
    elements,           \* instance -> self.elements
    ops,                \* history of add_element/clear calls
    configs,            \* heap of dicts returned by get_board_config
    last                \* the latest call: [op, self, args, ret]

authVars == <<modules, sessions, is_authenticated, calls>>
boardVars == <<canvases, size, elements, ops, configs>>
vars == <<modules, sessions, is_authenticated, calls,
          canvases, size, elements, ops, configs, last>>

Call(op, self, args, ret) == [op |-> op, self |-> self, args |-> args, ret |-> ret]

\* ------------------------------------------------------------- login.py
\* names bound at the top level of board.py (class and def statements)
BoardNames == {"CanvasManager", "get_board_config"}

\* the name login.py line 1 imports from board
ImportedName == "Board"

\* `from board import Board': succeeds iff board binds the name
FromBoardImport(name) == IF name \in BoardNames THEN "loaded" ELSE "ImportError"

\* variant: the password is not compared
CredentialsMatch_userOnly(username, password) == username = "admin"

\* the condition of the if statement in login
CredentialsMatch(username, password) ==
    username = "admin" /\ password = "synapse"

\* variant: a failed login assigns False
login_flag_resets(flag, username, password) ==
    IF username = "admin" /\ password = "synapse" THEN TRUE ELSE FALSE

\* value of self.is_authenticated after login, given its value before
login_flag(flag, username, password) ==
    IF CredentialsMatch(username, password) THEN TRUE ELSE flag

\* variant: `return True' is missing, the call falls through to `return False'
login_ret_fallthrough(username, password) == FALSE

\* return value of login
login_ret(username, password) ==
    IF CredentialsMatch(username, password) THEN TRUE ELSE FALSE

\* variant: logout leaves the flag as it is
logout_flag_noop(flag) == flag

\* variant: logout toggles the flag
logout_flag_toggle(flag) == ~flag

\* value of self.is_authenticated after logout, given its value before
logout_flag(flag) == FALSE

\* variant: the attribute is stored on the class, shared by all instances
SetAttr_shared(attr, self, v) == [x \in DOMAIN attr |-> v]

\* an assignment self.<attr> = v on one instance
SetAttr(attr, self, v) == [attr EXCEPT ![self] = v]

\* variant: a token is accepted only while some session is logged in
validate_token_session(token) ==
    token = "valid_token" /\ \E s \in sessions : is_authenticated[s]

\* validate_token(token)
validate_token(token) == token = "valid_token"

\* AuthProvider()
AuthProvider_init(self) ==
    /\ self \notin sessions
    /\ sessions' = sessions \cup {self}
    /\ is_authenticated' = [s \in sessions \cup {self} |->
                               IF s = self THEN FALSE ELSE is_authenticated[s]]
    /\ last' = Call("AuthProvider", self, <<>>, self)
    /\ UNCHANGED <<modules, calls>>
    /\ UNCHANGED boardVars

login(self, username, password) ==
    /\ self \in sessions
    /\ Len(calls) < MaxCalls
    /\ is_authenticated' = SetAttr(is_authenticated, self,
                             login_flag(is_authenticated[self], username, password))
    /\ calls' = Append(calls, [op |-> "login", self |-> self,
                               username |-> username, password |-> password])
    /\ last' = Call("login", self, <<username, password>>,
                    login_ret(username, password))
    /\ UNCHANGED <<modules, sessions>>
    /\ UNCHANGED boardVars

logout(self) ==
    /\ self \in sessions
    /\ Len(calls) < MaxCalls
    /\ is_authenticated' = SetAttr(is_authenticated, self,
                             logout_flag(is_authenticated[self]))
    /\ calls' = Append(calls, [op |-> "logout", self |-> self,
                               username |-> None, password |-> None])
    /\ last' = Call("logout", self, <<>>, None)
    /\ UNCHANGED <<modules, sessions>>
    /\ UNCHANGED boardVars

CallValidateToken(token) ==
    /\ last' = Call("validate_token", None, <<token>>, validate_token(token))
    /\ UNCHANGED authVars
    /\ UNCHANGED boardVars

\* import board: runs board.py, which only binds names
ImportBoard ==
    /\ modules["board"] = "unloaded"
    /\ modules' = [modules EXCEPT !["board"] = "loaded"]
    /\ last' = Call("import", "board", <<>>, None)
    /\ UNCHANGED <<sessions, is_authenticated, calls>>
    /\ UNCHANGED boardVars

\* import login: line 1 loads board and then looks the imported name up in it
ImportLogin ==
    /\ modules["login"] # "loaded"
    /\ LET r == FromBoardImport(ImportedName) IN
        /\ modules' = [modules EXCEPT !["board"] = "loaded", !["login"] = r]
        /\ last' = Call("import", "login", <<>>,
                        IF r = "loaded" THEN None ELSE "ImportError")
    /\ UNCHANGED <<sessions, is_authenticated, calls>>
    /\ UNCHANGED boardVars

\* ------------------------------------------------------------- board.py
\* variant: insert(0, element) instead of append
list_append_front(lst, element) == <<element>> \o lst

\* the list after self.elements.append(element)
list_append(lst, element) == Append(lst, element)

\* the list bound to self.elements by clear, given the list before
clear_list(lst) == <<>>

\* variant: one module-level dict is returned by every call
get_board_config_shared ==
    IF configs # <<>> THEN configs[1] ELSE [theme |-> "gruvbox", grid |-> TRUE]

\* the dict literal evaluated by get_board_config
get_board_config == [theme |-> "gruvbox", grid |-> TRUE]

\* CanvasManager(size)
CanvasManager_init(self, sz) ==
    /\ self \notin canvases
    /\ canvases' = canvases \cup {self}
    /\ size' = [c \in canvases \cup {self} |-> IF c = self THEN sz ELSE size[c]]
    /\ elements' = [c \in canvases \cup {self} |->
                       IF c = self THEN <<>> ELSE elements[c]]
    /\ last' = Call("CanvasManager", self, <<sz>>, self)
    /\ UNCHANGED <<ops, configs>>
    /\ UNCHANGED authVars

add_element(self, element) ==
    /\ self \in canvases
    /\ Len(ops) < MaxOps
    /\ elements' = SetAttr(elements, self, list_append(elements[self], element))
    /\ ops' = Append(ops, [op |-> "add_element", self |-> self, element |-> element])
    /\ last' = Call("add_element", self, <<element>>, None)
    /\ UNCHANGED <<canvases, size, configs>>
    /\ UNCHANGED authVars

clear(self) ==
    /\ self \in canvases
    /\ Len(ops) < MaxOps
    /\ elements' = SetAttr(elements, self, clear_list(elements[self]))
    /\ ops' = Append(ops, [op |-> "clear", self |-> self, element |-> None])
    /\ last' = Call("clear", self, <<>>, None)
    /\ UNCHANGED <<canvases, size, configs>>
    /\ UNCHANGED authVars

\* get_board_config(): a new dict object is created and a reference returned
CallGetBoardConfig ==
    /\ Len(configs) < MaxConfigs
    /\ configs' = Append(configs, get_board_config)
    /\ last' = Call("get_board_config", None, <<>>, Len(configs) + 1)
    /\ UNCHANGED <<canvases, size, elements, ops>>
    /\ UNCHANGED authVars

\* a caller stores into a dict it received: d["theme"] = v
CallerSetsTheme(ref, v) ==
    /\ ref \in 1..Len(configs)
    /\ configs[ref].theme # v
    /\ configs' = [configs EXCEPT ![ref].theme = v]
    /\ last' = Call("setitem", ref, <<"theme", v>>, None)
    /\ UNCHANGED <<canvases, size, elements, ops>>
    /\ UNCHANGED authVars

Init ==
    /\ modules = [m \in Modules |-> "unloaded"]
    /\ sessions = {}
    /\ is_authenticated = <<>>
    /\ calls = <<>>
    /\ canvases = {}
    /\ size = <<>>
    /\ elements = <<>>
    /\ ops = <<>>
    /\ configs = <<>>
    /\ last = Call("start", None, <<>>, None)

Next ==
    \/ \E self \in SessionIds : AuthProvider_init(self)
    \/ \E self \in SessionIds, u \in Usernames, p \in Passwords : login(self, u, p)
    \/ \E self \in SessionIds : logout(self)
    \/ \E t \in Tokens : CallValidateToken(t)
    \/ ImportBoard
    \/ ImportLogin

Spec == Init /\ [][Next]_vars

NextBoard ==
    \/ \E self \in CanvasIds, sz \in Sizes : CanvasManager_init(self, sz)
    \/ \E self \in CanvasIds, e \in Elements : add_element(self, e)
    \/ \E self \in CanvasIds : clear(self)
    \/ CallGetBoardConfig
    \/ \E ref \in 1..MaxConfigs, v \in ThemeValues : CallerSetsTheme(ref, v)

SpecBoard == Init /\ [][NextBoard]_vars

\* ================================================================ claims
LoginEntry(s, u, p) == [op |-> "login", self |-> s, username |-> u, password |-> p]
LogoutEntry(s) == [op |-> "logout", self |-> s, username |-> None, password |-> None]

\* the step is a call login(u, p) on s / logout() on s
LoginStep(s, u, p) == calls' = Append(calls, LoginEntry(s, u, p))
LogoutStep(s) == calls' = Append(calls, LogoutEntry(s))

\* the latest call is login with a pair other than ("admin", "synapse")
LastIsFailedLogin == last.op = "login" /\ last.args # <<"admin", "synapse">>
LastIsGoodLogin == last.op = "login" /\ last.args = <<"admin", "synapse">>

\* C1 (as stated): after every login(u, p) with (u, p) # ("admin", "synapse"),
\* in any session state, the call has returned false and the session is
\* unauthenticated.
C1_FailedLoginLeavesUnauthenticated ==
    LastIsFailedLogin =>
        /\ last.ret = FALSE
        /\ is_authenticated[last.self] = FALSE

\* C1 (amended): every login(u, p) with (u, p) # ("admin", "synapse") returns
\* false in any session state, and a session that was unauthenticated before
\* the call is unauthenticated after it.
C1_FailedLoginKeepsUnauthenticated ==
    [][\A s \in sessions, u \in Usernames, p \in Passwords :
          (LoginStep(s, u, p) /\ <<u, p>> # <<"admin", "synapse">>) =>
              /\ last'.ret = FALSE
              /\ (is_authenticated[s] = FALSE => is_authenticated'[s] = FALSE)]_vars

\* C1 witness: a failed login on a session that had logged in and out before
C1_Witness ==
    /\ LastIsFailedLogin
    /\ last.ret = FALSE
    /\ is_authenticated[last.self] = FALSE
    /\ Len(calls) >= 3
    /\ calls[Len(calls) - 1] = LogoutEntry(last.self)
    /\ calls[Len(calls) - 2] = LoginEntry(last.self, "admin", "synapse")

\* C2: every login(u, p) with (u, p) # ("admin", "synapse") returns false and
\* leaves is_authenticated of the session with the value it had before.
C2_FailedLoginFrame ==
    [][\A s \in sessions, u \in Usernames, p \in Passwords :
          (LoginStep(s, u, p) /\ <<u, p>> # <<"admin", "synapse">>) =>
              /\ last'.ret = FALSE
              /\ is_authenticated'[s] = is_authenticated[s]]_vars

\* C2 witness: a failed login on an authenticated session, which stays so
C2_Witness ==
    /\ LastIsFailedLogin
    /\ last.ret = FALSE
    /\ is_authenticated[last.self] = TRUE

\* C3: after login("admin", "synapse") the call has returned true and the
\* session is authenticated, whatever the state before.
C3_GoodLogin ==
    LastIsGoodLogin =>
        /\ last.ret = TRUE
        /\ is_authenticated[last.self] = TRUE

\* C3 witness: a successful login on a session after login and logout
C3_Witness ==
    /\ LastIsGoodLogin
    /\ last.ret = TRUE
    /\ Len(calls) >= 3
    /\ calls[Len(calls) - 1] = LogoutEntry(last.self)
    /\ calls[Len(calls) - 2] = LoginEntry(last.self, "admin", "synapse")

\* C4: after logout() the session is unauthenticated, whether it was
\* authenticated before or not.
C4_Logout ==
    last.op = "logout" =>
        /\ is_authenticated[last.self] = FALSE
        /\ last.ret = None

\* C4 witness: logout called twice in a row after a successful login
C4_Witness ==
    /\ last.op = "logout"
    /\ Len(calls) >= 3
    /\ calls[Len(calls) - 1] = LogoutEntry(last.self)
    /\ calls[Len(calls) - 2] = LoginEntry(last.self, "admin", "synapse")
    /\ is_authenticated[last.self] = FALSE

\* a login("admin", "synapse") on s occurred with no logout on s after it
LoggedInByHistory(s) ==
    \E i \in 1..Len(calls) :
        /\ calls[i] = LoginEntry(s, "admin", "synapse")
        /\ \A j \in (i + 1)..Len(calls) : calls[j] # LogoutEntry(s)

\* C5: is_authenticated is true exactly when a login("admin", "synapse") has
\* occurred with no logout since; only a successful login turns the flag on
\* and only logout turns it off.
C5_Lifecycle ==
    /\ [](\A s \in sessions : is_authenticated[s] = LoggedInByHistory(s))
    /\ [][\A s \in sessions :
            /\ (is_authenticated[s] = FALSE /\ is_authenticated'[s] = TRUE)
                  => LoginStep(s, "admin", "synapse")
            /\ (is_authenticated[s] = TRUE /\ is_authenticated'[s] = FALSE)
                  => LogoutStep(s)]_vars

\* C5 witness: logged in, a failed login and no logout since: still logged in
C5_Witness ==
    \E s \in sessions :
        /\ Len(calls) >= 3
        /\ calls[1] = LogoutEntry(s)
        /\ calls[2] = LoginEntry(s, "admin", "synapse")
        /\ calls[3] = LoginEntry(s, "guest", "synapse")
        /\ is_authenticated[s] = TRUE

\* C7: validate_token(t) returns true exactly when t = "valid_token", in
\* every session state, and the call changes no session's flag.
C7_ValidateToken ==
    /\ [](last.op = "validate_token" =>
            last.ret = (last.args = <<"valid_token">>))
    /\ [][last'.op = "validate_token" =>
            (is_authenticated' = is_authenticated /\ sessions' = sessions)]_vars

\* C7 witness: the valid token accepted while no session is logged in, and
\* one session exists
C7_Witness ==
    /\ last.op = "validate_token"
    /\ last.args = <<"valid_token">>
    /\ last.ret = TRUE
    /\ sessions # {}
    /\ \A s \in sessions : is_authenticated[s] = FALSE

\* C9 (as stated): no operation fails; in particular loading the board and
\* the login module completes normally and no error state is reachable.
C9_NoOperationFails ==
    \A m \in Modules : modules[m] # "ImportError"

\* C10: a login or logout call on one session leaves the flag of every other
\* session unchanged.
C10_InstanceScoped ==
    [][\A a \in sessions :
          (Len(calls') = Len(calls) + 1 /\ calls'[Len(calls')].self = a) =>
              \A b \in sessions \ {a} :
                  is_authenticated'[b] = is_authenticated[b]]_vars

\* C10 witness: A logged in, then B logged in and out; A is still logged in
C10_Witness ==
    /\ sessions = {"A", "B"}
    /\ Len(calls) >= 3
    /\ calls[Len(calls) - 2] = LoginEntry("A", "admin", "synapse")
    /\ calls[Len(calls) - 1] = LoginEntry("B", "admin", "synapse")
    /\ calls[Len(calls)] = LogoutEntry("B")
    /\ is_authenticated["A"] = TRUE
    /\ is_authenticated["B"] = FALSE

\* index of the latest clear() on canvas c in the history, 0 if none
LastClear(c) ==
    LET S == {i \in 1..Len(ops) : ops[i].op = "clear" /\ ops[i].self = c}
    IN IF S = {} THEN 0 ELSE CHOOSE i \in S : \A j \in S : j <= i

\* positions of the add_element calls on c after its latest clear
AddsSinceClear(c) ==
    {i \in (LastClear(c) + 1)..Len(ops) :
        ops[i].op = "add_element" /\ ops[i].self = c}

\* C6: elements of a canvas is exactly the sequence of values passed to
\* add_element since its last clear (or creation), in call order, duplicates
\* kept, whatever size is; right after clear() it is empty.
C6_Elements ==
    /\ \A c \in canvases :
        /\ Len(elements[c]) = Cardinality(AddsSinceClear(c))
        /\ \A k \in 1..Len(elements[c]) :
              \E i \in AddsSinceClear(c) :
                  /\ Cardinality({j \in AddsSinceClear(c) : j <= i}) = k
                  /\ elements[c][k] = ops[i].element
    /\ (last.op = "clear" => elements[last.self] = <<>>)

\* C6 witness: add, clear, then x and y added to a canvas of size 1
C6_Witness ==
    \E c \in canvases :
        /\ size[c] = 1
        /\ Len(ops) = 4
        /\ ops[1] = [op |-> "add_element", self |-> c, element |-> "y"]
        /\ ops[2] = [op |-> "clear", self |-> c, element |-> None]
        /\ elements[c] = <<"x", "y">>

\* C8: get_board_config() returns a mapping equal to
\* {"theme": "gruvbox", "grid": true} on every call, also after a caller
\* changed a mapping received earlier, and leaves every canvas unchanged.
C8_BoardConfig ==
    /\ [](last.op = "get_board_config" =>
            configs[last.ret] = [theme |-> "gruvbox", grid |-> TRUE])
    /\ [][last'.op = "get_board_config" =>
            (canvases' = canvases /\ size' = size /\ elements' = elements)]_vars

\* C8 witness: a second call after the first dict was changed by its holder,
\* with a non-empty canvas
C8_Witness ==
    /\ last.op = "get_board_config"
    /\ last.ret = 2
    /\ configs[1] = [theme |-> "dark", grid |-> TRUE]
    /\ configs[2] = [theme |-> "gruvbox", grid |-> TRUE]
    /\ \E c \in canvases : elements[c] # <<>>
====
